---- MODULE Spec2Model ----
(***************************************************************************)
(* The document ingestion CLI of at-leveling-chatbot:                      *)
(*   src/src/ingestion/pipeline.py  (load_pdf, upload_in_batches,          *)
(*                                   ingest_documents, __main__)           *)
(*   src/src/core/config.py         (Config, validate_environment,         *)
(*                                   handle_errors)                        *)
(*   src/src/core/rag.py            (create_or_verify_collection)          *)
(* One run of the CLI is a sequential program (pc) with one concurrent     *)
(* part, the multiprocessing pool of load_pdf.                             *)
(***************************************************************************)
EXTENDS Integers, Sequences, FiniteSets, TLC

(* ------------------------------ bounds -------------------------------- *)
\* pages of the PDF on disk
MaxPages == 4
\* config.max_processes ranges over 0..MaxProc
MaxProc == 2
\* chunks the splitter returns
MaxChunks == 3
\* config.batch_size ranges over -1..MaxBatch
MaxBatch == 2
\* required environment variables that may be unset at once
MaxMissing == 2
\* calls of create_or_verify_collection in a provisioning session
MaxProvision == 2

(* --------------------------- pure helpers ----------------------------- *)
Min(a, b) == IF a < b THEN a ELSE b

Max(a, b) == IF a > b THEN a ELSE b

RECURSIVE Flatten(_)
\* concatenation of a sequence of sequences, in order
Flatten(ss) == IF ss = <<>> THEN <<>> ELSE Head(ss) \o Flatten(Tail(ss))

\* Python's seq[lo:hi] for 0 <= lo, any hi (indices are clamped to the length)
Slice(seq, lo, hi) == SubSeq(seq, Min(lo, Len(seq)) + 1, Min(Max(hi, 0), Len(seq)))

RECURSIVE Join(_, _)
\* ', '.join(names), kept as the sequence of its pieces
Join(sep, names) ==
    IF names = <<>> THEN <<>>
    ELSE IF Len(names) = 1 THEN names
    ELSE <<Head(names), sep>> \o Join(sep, Tail(names))

(* ------------------------------ config.py ----------------------------- *)
\* Config.validate_environment: the list `required`, in its order
Required ==
    << "AZURE_OPENAI_API_KEY", "AZURE_OPENAI_ENDPOINT",
       "AZURE_OPENAI_API_VERSION", "AZURE_OPENAI_DEPLOYMENT_NAME",
       "AZURE_OPENAI_EMBEDDINGS_API_KEY", "AZURE_OPENAI_EMBEDDINGS_ENDPOINT",
       "AZURE_OPENAI_EMBEDDINGS_API_VERSION",
       "AZURE_OPENAI_EMBEDDINGS_DEPLOYMENT_NAME",
       "QDRANT_URL", "QDRANT_API_KEY" >>

RequiredSet == {Required[k] : k \in 1..Len(Required)}

\* a faulty variant of ValidateEnvironment: stops at the first missing variable
ValidateEnvironmentFirstOnly(env) ==
    LET all == SelectSeq(Required, LAMBDA v : v \notin env)
    IN  IF all = <<>> THEN <<>> ELSE <<Head(all)>>

\* [var for var in required if not os.getenv(var)]; env is the set of
\* variables that hold a non-empty value
ValidateEnvironment(env) == SelectSeq(Required, LAMBDA v : v \notin env)

\* f"Missing environment variables: {', '.join(missing_vars)}"
MissingMessage(missing) == <<"Missing environment variables: ">> \o Join(", ", missing)

(* ----------------------------- pipeline.py ---------------------------- *)
\* PyPDFium2Loader(pdf_path).load(): one document per page, in page order;
\* a document is identified by its page index 0..n-1
LoaderLoad(n) == [k \in 1..n |-> k - 1]

\* load_pdf_pages with both bounds given: documents[start_page:end_page]
LoadPdfPages(docs, start_page, end_page) == Slice(docs, start_page, end_page)

\* a faulty variant of PageRanges: the last range does not absorb the remainder
PageRangesNoRemainder(total_pages, max_processes) ==
    LET pages_per_process == total_pages \div max_processes
    IN  [k \in 1..max_processes |->
            <<(k - 1) * pages_per_process, k * pages_per_process>>]

\* page_ranges of load_pdf (max_processes >= 1); entry k is range i = k - 1
PageRanges(total_pages, max_processes) ==
    LET pages_per_process == total_pages \div max_processes
    IN  [k \in 1..max_processes |->
            <<(k - 1) * pages_per_process,
              IF k - 1 < max_processes - 1 THEN k * pages_per_process
              ELSE total_pages>>]

\* a faulty variant of RangeStarts: the last, shorter batch is dropped
RangeStartsWholeOnly(total_docs, step) ==
    IF step > 0
    THEN [k \in 1..(total_docs \div step) |-> (k - 1) * step]
    ELSE <<>>

\* range(0, total_docs, step) for step /= 0, as the sequence of its values
RangeStarts(total_docs, step) ==
    IF step > 0
    THEN [k \in 1..((total_docs + step - 1) \div step) |-> (k - 1) * step]
    ELSE <<>>

\* batch = documents[i:i + batch_size]
BatchAt(docs, at, size) == Slice(docs, at, at + size)

\* a faulty variant of FailedOnFirstError: the failure is not tallied before the retry
FailedOnFirstErrorLate(n, b) == n

\* failed += len(batch), in the handler of the first attempt
FailedOnFirstError(n, b) == n + Len(b)

\* a faulty variant of FailedOnRetryOk: the earlier tally is not undone
FailedOnRetryOkKept(n, b) == n

\* failed -= len(batch), after a successful retry
FailedOnRetryOk(n, b) == n - Len(b)

\* a faulty variant of UploadResult: success as soon as anything was uploaded
UploadResultAny(n_ok, n_failed) == n_ok > 0 \/ n_failed = 0

\* return failed == 0
UploadResult(n_ok, n_failed) == n_failed = 0

(* -------------------------------- rag.py ------------------------------ *)
UpperCase ==
    << "A", "B", "C", "D", "E", "F", "G", "H", "I", "J", "K", "L", "M",
       "N", "O", "P", "Q", "R", "S", "T", "U", "V", "W", "X", "Y", "Z" >>

LowerCase ==
    << "a", "b", "c", "d", "e", "f", "g", "h", "i", "j", "k", "l", "m",
       "n", "o", "p", "q", "r", "s", "t", "u", "v", "w", "x", "y", "z" >>

\* str.lower() on one character (ASCII letters; others are unchanged)
LowerChar(c) ==
    IF \E k \in 1..Len(UpperCase) : UpperCase[k] = c
    THEN LowerCase[CHOOSE k \in 1..Len(UpperCase) : UpperCase[k] = c]
    ELSE c

\* str.lower()
Lower(str) == [k \in 1..Len(str) |-> LowerChar(str[k])]

\* needle in haystack
Contains(haystack, needle) ==
    \E at \in 0..(Len(haystack) - Len(needle)) :
        SubSeq(haystack, at + 1, at + Len(needle)) = needle

AlreadyExistsNeedle == <<"a", "l", "r", "e", "a", "d", "y", " ", "e", "x", "i", "s", "t", "s">>

\* messages of the store's failures: the first is what create_collection answers
\* for an existing collection, the others are failures of other kinds
MsgAlreadyExists == <<"W", "r", "o", "n", "g", " ", "i", "n", "p", "u", "t", ":", " ", "C", "o", "l", "l", "e", "c", "t", "i", "o", "n", " ", "A", "l", "r", "e", "a", "d", "y", " ", "E", "x", "i", "s", "t", "s", "!">>

MsgTimeout == <<"T", "i", "m", "e", "d", " ", "o", "u", "t">>

MsgUnauthorized == <<"U", "n", "a", "u", "t", "h", "o", "r", "i", "z", "e", "d">>

MsgWrongInput == <<"W", "r", "o", "n", "g", " ", "i", "n", "p", "u", "t", ":", " ", "E", "x", "i", "s", "t", "i", "n", "g", " ", "s", "i", "z", "e">>

OtherFailures == {MsgTimeout, MsgUnauthorized, MsgWrongInput}

\* a faulty variant of IsAlreadyExists: the message is not lowered before the search
IsAlreadyExistsCaseSensitive(msg) == Contains(msg, AlreadyExistsNeedle)

\* "already exists" in str(e).lower()
IsAlreadyExists(msg) == Contains(Lower(msg), AlreadyExistsNeedle)

\* client.create_collection of the vector store (a black box to the code):
\* an existing name is refused with the already-exists failure, an injected
\* fault fails the call with its message, otherwise the collection is created.
\* fault is <<>> for no fault.
CreateCollection(st, name, size, fault) ==
    IF fault /= <<>> THEN [store |-> st, error |-> fault]
    ELSE IF name \in DOMAIN st THEN [store |-> st, error |-> MsgAlreadyExists]
    ELSE [store |-> [n \in DOMAIN st \cup {name} |-> IF n = name THEN size ELSE st[n]],
          error |-> <<>>]

\* create_or_verify_collection: True after a creation or an already-exists
\* failure; any other failure is raised again. observed is what
\* client.create_collection answered (<<>> for a creation).
CreateOrVerifyCollection(st, name, size, fault) ==
    LET r == CreateCollection(st, name, size, fault)
    IN  IF r.error = <<>>
        THEN [store |-> r.store, observed |-> r.error, returns |-> TRUE, raises |-> <<>>]
        ELSE IF IsAlreadyExists(r.error)
        THEN [store |-> r.store, observed |-> r.error, returns |-> TRUE, raises |-> <<>>]
        ELSE [store |-> r.store, observed |-> r.error, returns |-> FALSE, raises |-> r.error]

(* ------------------------------- state -------------------------------- *)
VARIABLES
    environ,      \* os.environ: the required variables holding a non-empty value
    config,       \* Config: max_processes, batch_size, collection_name
    store,        \* the vector store: collection name -> vector size
    pc,           \* position of the main thread
    raised,       \* class of the exception propagating out of ingest_documents
    message,      \* str(e) of that exception, when the code builds it
    success,      \* ingest_documents' local `success`: "none", "True", "False"
    ret,          \* what ingest_documents returned: "none", "True", "False"
    exit_code,    \* the process exit code, -1 while running
    interrupted,  \* a KeyboardInterrupt was delivered during the run
    log,          \* the calls and sleeps made so far, in order
    total_pages,  \* load_pdf: len(temp_docs)
    page_ranges,  \* load_pdf: page_ranges
    tasks,        \* pool: state of each starmap task
    results,      \* pool: result of each task, by task index
    done_order,   \* pool: task indices in completion order
    documents,    \* ingest_documents: the loaded pages
    test_dim,     \* ingest_documents: len(embeddings.embed_query('test'))
    chunks,       \* ingest_documents: the chunks, upload_in_batches' documents
    iteration,    \* upload_in_batches: iterations of the for loop started
    i,            \* upload_in_batches: the loop variable
    batch,        \* upload_in_batches: the current batch
    successful,   \* upload_in_batches: successful
    failed,       \* upload_in_batches: failed
    provisions    \* provisioning session: the calls of create_or_verify_collection

vars ==
    << environ, config, store, pc, raised, message, success, ret, exit_code,
       interrupted, log, total_pages, page_ranges, tasks, results, done_order,
       documents, test_dim, chunks, iteration, i, batch, successful, failed, provisions >>

loadVars == << total_pages, page_ranges, tasks, results, done_order >>

uploadVars == << iteration, i, batch, successful, failed >>

outcomeVars == << raised, message, success, ret, exit_code >>

\* a collection name per deployment (COLLECTION_NAME) and vector sizes
Names == {"atyantik-chatbot-openai", "other"}

Sizes == {1536, 3072}

EmptyStore == [n \in {} |-> 0]

Stores == {EmptyStore} \cup {[n \in {name} |-> size] : name \in Names, size \in Sizes}

\* the store as a run of the CLI finds it: without the collection, or with it
\* as an earlier run created it
InitialStores == {EmptyStore, [n \in {"atyantik-chatbot-openai"} |-> 1536]}

Environments ==
    {RequiredSet \ m : m \in {x \in SUBSET RequiredSet : Cardinality(x) <= MaxMissing}}

Configs ==
    [max_processes : 0..MaxProc, batch_size : -1..MaxBatch,
     collection_name : {"atyantik-chatbot-openai"}]

\* one entry of log
Event(ev, at, b, attempt, out) ==
    [ev |-> ev, at |-> at, batch |-> b, attempt |-> attempt, out |-> out]

Call(ev, out) == Event(ev, 0, <<>>, 0, out)

Idle ==
    /\ raised = "none"
    /\ message = <<>>
    /\ success = "none"
    /\ ret = "none"
    /\ exit_code = -1
    /\ interrupted = FALSE
    /\ log = <<>>
    /\ total_pages = 0
    /\ page_ranges = <<>>
    /\ tasks = <<>>
    /\ results = <<>>
    /\ done_order = <<>>
    /\ documents = <<>>
    /\ test_dim = 0
    /\ chunks = <<>>
    /\ iteration = 0
    /\ i = 0
    /\ batch = <<>>
    /\ successful = 0
    /\ failed = 0

\* the CLI process as it enters ingest_documents()
Init ==
    /\ environ \in Environments
    /\ config \in Configs
    /\ store \in InitialStores
    /\ pc = "validate"
    /\ provisions = <<>>
    /\ Idle

(* --------------------------- ingest_documents ------------------------- *)
\* an exception leaves ingest_documents: handle_errors prints and re-raises an
\* Exception, a KeyboardInterrupt passes it untouched; __main__ catches both
Raise(cls, msg) ==
    /\ raised' = cls
    /\ message' = msg
    /\ pc' = "main_except"
    /\ UNCHANGED << success, ret, exit_code >>

\* the outcome of one external call: it returns, raises an Exception, or the
\* user interrupts it
Proceed(ev, out, to) ==
    /\ log' = Append(log, Call(ev, out))
    /\ interrupted' = (interrupted \/ out = "interrupt")
    /\ IF out = "ok"
       THEN pc' = to /\ UNCHANGED outcomeVars
       ELSE Raise(IF out = "interrupt" THEN "KeyboardInterrupt" ELSE "Exception", <<>>)

Outcomes == {"ok", "error", "interrupt"}

\* missing_vars = Config.validate_environment(); raise ValueError if any
Validate ==
    /\ pc = "validate"
    /\ LET missing_vars == ValidateEnvironment(environ)
       IN  IF missing_vars /= <<>>
           THEN Raise("ValueError", MissingMessage(missing_vars))
           ELSE pc' = "load" /\ UNCHANGED outcomeVars
    /\ UNCHANGED << environ, config, store, interrupted, log, loadVars, documents,
                    test_dim, chunks, uploadVars, provisions >>

\* load_pdf up to the pool: the existence check, the first load, the small-PDF
\* return, the page ranges. out is what the file system and the loader answer:
\* no file, a loader failure, an interrupt, or the PDF's page count.
LoadPdf ==
    /\ pc = "load"
    /\ \E out \in {"missing", "error", "interrupt", "ok"}, n \in 0..MaxPages :
        /\ out /= "ok" => n = 0
        /\ interrupted' = (interrupted \/ out = "interrupt")
        /\ log' = IF out = "missing" THEN log ELSE Append(log, Call("load", out))
        /\ IF out = "missing" THEN
               /\ Raise("FileNotFoundError", <<>>)
               /\ UNCHANGED << loadVars, documents >>
           ELSE IF out \in {"error", "interrupt"} THEN
               /\ Raise(IF out = "interrupt" THEN "KeyboardInterrupt" ELSE "Exception", <<>>)
               /\ UNCHANGED << loadVars, documents >>
           ELSE IF n <= config.max_processes THEN
               /\ total_pages' = n
               /\ documents' = LoaderLoad(n)
               /\ pc' = "split"
               /\ UNCHANGED << outcomeVars, page_ranges, tasks, results, done_order >>
           ELSE IF config.max_processes = 0 THEN
               \* pages_per_process = total_pages // 0
               /\ total_pages' = n
               /\ Raise("ZeroDivisionError", <<>>)
               /\ UNCHANGED << page_ranges, tasks, results, done_order, documents >>
           ELSE
               /\ total_pages' = n
               /\ page_ranges' = PageRanges(n, config.max_processes)
               /\ tasks' = [k \in 1..config.max_processes |-> "queued"]
               /\ results' = [k \in 1..config.max_processes |-> <<>>]
               /\ done_order' = <<>>
               /\ pc' = "pool"
               /\ UNCHANGED << outcomeVars, documents >>
    /\ UNCHANGED << environ, config, store, test_dim, chunks, uploadVars, provisions >>

\* a pool process takes task k of pool.starmap(load_func, page_ranges)
TaskStart(k) ==
    /\ pc = "pool"
    /\ tasks[k] = "queued"
    /\ tasks' = [tasks EXCEPT ![k] = "running"]
    /\ UNCHANGED << environ, config, store, pc, outcomeVars, interrupted, log,
                    total_pages, page_ranges, results, done_order, documents,
                    test_dim, chunks, uploadVars, provisions >>

\* task k ends: load_pdf_pages(pdf_path, start, end) returned its slice of a
\* fresh load of the PDF, or raised
TaskFinish(k) ==
    /\ pc = "pool"
    /\ tasks[k] = "running"
    /\ \E out \in {"ok", "error"} :
        /\ tasks' = [tasks EXCEPT ![k] = IF out = "ok" THEN "done" ELSE "failed"]
        /\ results' = [results EXCEPT ![k] =
               IF out = "ok"
               THEN LoadPdfPages(LoaderLoad(total_pages), page_ranges[k][1], page_ranges[k][2])
               ELSE <<>>]
        /\ log' = Append(log, Event("load_pdf_pages", k - 1, <<>>, 0, out))
    /\ done_order' = Append(done_order, k)
    /\ UNCHANGED << environ, config, store, pc, outcomeVars, interrupted,
                    total_pages, page_ranges, documents, test_dim, chunks,
                    uploadVars, provisions >>

\* a faulty variant of PoolJoin: a failed task is passed over and the results
\* of the others are kept
PoolJoinPartial ==
    /\ pc = "pool"
    /\ \A k \in DOMAIN tasks : tasks[k] \in {"done", "failed"}
    /\ pc' = "combine"
    /\ UNCHANGED << environ, config, store, outcomeVars, interrupted, log, loadVars,
                    documents, test_dim, chunks, uploadVars, provisions >>

\* starmap returns once every task has ended: the results by task index, or
\* the exception of a failed task
PoolJoin ==
    /\ pc = "pool"
    /\ \A k \in DOMAIN tasks : tasks[k] \in {"done", "failed"}
    /\ IF \E k \in DOMAIN tasks : tasks[k] = "failed"
       THEN Raise("Exception", <<>>)
       ELSE pc' = "combine" /\ UNCHANGED outcomeVars
    /\ UNCHANGED << environ, config, store, interrupted, log, loadVars, documents,
                    test_dim, chunks, uploadVars, provisions >>

\* the user interrupts the main process while it waits in starmap
PoolInterrupt ==
    /\ pc = "pool"
    /\ interrupted' = TRUE
    /\ Raise("KeyboardInterrupt", <<>>)
    /\ UNCHANGED << environ, config, store, log, loadVars, documents, test_dim,
                    chunks, uploadVars, provisions >>

\* a faulty variant of Combine: the results are taken in completion order
CombineCompletionOrder(res) == Flatten([k \in 1..Len(done_order) |-> res[done_order[k]]])

\* for doc_batch in results: all_documents.extend(doc_batch)
Combine(res) == Flatten(res)

CombineResults ==
    /\ pc = "combine"
    /\ documents' = Combine(results)
    /\ pc' = "split"
    /\ UNCHANGED << environ, config, store, outcomeVars, interrupted, log, loadVars,
                    test_dim, chunks, uploadVars, provisions >>

\* chunks = split_documents(documents, config): the splitter is a library; it
\* returns no chunk for no text and any number of chunks otherwise. A chunk is
\* identified by its position. load_pdf's locals are gone by now.
Split ==
    /\ pc = "split"
    /\ \E out \in {"ok", "interrupt"}, n \in 0..MaxChunks :
        /\ out /= "ok" => n = 0
        /\ interrupted' = (interrupted \/ out = "interrupt")
        /\ IF out = "interrupt"
           THEN Raise("KeyboardInterrupt", <<>>) /\ UNCHANGED chunks
           ELSE /\ documents = <<>> => n = 0
                /\ chunks' = [k \in 1..n |-> k]
                /\ pc' = "embeddings"
                /\ UNCHANGED outcomeVars
    /\ page_ranges' = <<>>
    /\ tasks' = <<>>
    /\ results' = <<>>
    /\ done_order' = <<>>
    /\ UNCHANGED << environ, config, store, log, total_pages, documents, test_dim,
                    uploadVars, provisions >>

\* embeddings = create_embeddings(config)
CreateEmbeddings ==
    /\ pc = "embeddings"
    /\ \E out \in Outcomes : Proceed("create_embeddings", out, "client")
    /\ UNCHANGED << environ, config, store, loadVars, documents, test_dim, chunks,
                    uploadVars, provisions >>

\* client = create_qdrant_client()
CreateQdrantClient ==
    /\ pc = "client"
    /\ \E out \in Outcomes : Proceed("create_qdrant_client", out, "probe")
    /\ UNCHANGED << environ, config, store, loadVars, documents, test_dim, chunks,
                    uploadVars, provisions >>

\* test_dim = len(embeddings.embed_query('test'))
ProbeDimension ==
    /\ pc = "probe"
    /\ \E out \in Outcomes :
        /\ Proceed("embed_query", out, "collection")
        /\ IF out = "ok" THEN test_dim' \in Sizes ELSE UNCHANGED test_dim
    /\ UNCHANGED << environ, config, store, loadVars, documents, chunks,
                    uploadVars, provisions >>

\* create_or_verify_collection(client, config, test_dim)
ProvisionCollection ==
    /\ pc = "collection"
    /\ \E out \in {"call", "interrupt"}, fault \in {<<>>} \cup OtherFailures :
        /\ out /= "call" => fault = <<>>
        /\ interrupted' = (interrupted \/ out = "interrupt")
        /\ IF out = "interrupt"
           THEN /\ log' = Append(log, Call("create_collection", "interrupt"))
                /\ Raise("KeyboardInterrupt", <<>>)
                /\ UNCHANGED store
           ELSE LET r == CreateOrVerifyCollection(store, config.collection_name,
                                                  test_dim, fault)
                IN  /\ store' = r.store
                    /\ log' = Append(log, Call("create_collection",
                                  IF r.observed = <<>> THEN "ok" ELSE "error"))
                    /\ IF r.raises /= <<>>
                       THEN Raise("Exception", r.raises)
                       ELSE pc' = "vectorstore" /\ UNCHANGED outcomeVars
    /\ UNCHANGED << environ, config, loadVars, documents, test_dim, chunks,
                    uploadVars, provisions >>

\* vectorstore = create_vector_store(client, embeddings, config)
CreateVectorStore ==
    /\ pc = "vectorstore"
    /\ \E out \in Outcomes : Proceed("create_vector_store", out, "upload")
    /\ UNCHANGED << environ, config, store, loadVars, documents, test_dim, chunks,
                    uploadVars, provisions >>

(* --------------------------- upload_in_batches ------------------------ *)
\* total_docs, successful = 0, failed = 0, and the range of the for loop:
\* range(0, total_docs, 0) raises ValueError
UploadStart ==
    /\ pc = "upload"
    /\ log' = Append(log, Call("upload_in_batches", "ok"))
    /\ iteration' = 0
    /\ i' = 0
    /\ batch' = <<>>
    /\ successful' = 0
    /\ failed' = 0
    /\ IF config.batch_size = 0
       THEN Raise("ValueError", <<>>)
       ELSE pc' = "for" /\ UNCHANGED outcomeVars
    /\ UNCHANGED << environ, config, store, interrupted, loadVars, documents,
                    test_dim, chunks, provisions >>

\* for i in range(0, total_docs, batch_size): batch = documents[i:i + batch_size]
ForNext ==
    /\ pc = "for"
    /\ LET starts == RangeStarts(Len(chunks), config.batch_size)
       IN  IF iteration < Len(starts)
           THEN /\ iteration' = iteration + 1
                /\ i' = starts[iteration + 1]
                /\ batch' = BatchAt(chunks, starts[iteration + 1], config.batch_size)
                /\ pc' = "first"
           ELSE /\ pc' = "return"
                /\ UNCHANGED << iteration, i, batch >>
    /\ UNCHANGED << environ, config, store, outcomeVars, interrupted, log, loadVars,
                    documents, test_dim, chunks, successful, failed, provisions >>

\* the first vectorstore.add_documents(batch): successful += len(batch), or the
\* handler's failed += len(batch); `except Exception` lets an interrupt pass
FirstAttempt ==
    /\ pc = "first"
    /\ \E out \in Outcomes :
        /\ log' = Append(log, Event("add_documents", i, batch, 1, out))
        /\ interrupted' = (interrupted \/ out = "interrupt")
        /\ IF out = "ok" THEN
               /\ successful' = successful + Len(batch)
               /\ pc' = "pause"
               /\ UNCHANGED << outcomeVars, failed >>
           ELSE IF out = "error" THEN
               /\ failed' = FailedOnFirstError(failed, batch)
               /\ pc' = "backoff"
               /\ UNCHANGED << outcomeVars, successful >>
           ELSE
               /\ Raise("KeyboardInterrupt", <<>>)
               /\ UNCHANGED << successful, failed >>
    /\ UNCHANGED << environ, config, store, loadVars, documents, test_dim, chunks,
                    iteration, i, batch, provisions >>

\* gc.collect(); time.sleep(0.1) after a successful first attempt, inside the
\* try: an interrupt of the sleep leaves the function
Pause ==
    /\ pc = "pause"
    /\ \E out \in {"ok", "interrupt"} :
        /\ log' = Append(log, Event("sleep_pause", i, <<>>, 0, out))
        /\ interrupted' = (interrupted \/ out = "interrupt")
        /\ IF out = "ok"
           THEN pc' = "for" /\ UNCHANGED outcomeVars
           ELSE Raise("KeyboardInterrupt", <<>>)
    /\ UNCHANGED << environ, config, store, loadVars, documents, test_dim, chunks,
                    uploadVars, provisions >>

\* time.sleep(0.5) before the retry, inside the inner try: the bare except
\* swallows an interrupt and the loop goes on
Backoff ==
    /\ pc = "backoff"
    /\ \E out \in {"ok", "interrupt"} :
        /\ log' = Append(log, Event("sleep_backoff", i, <<>>, 0, out))
        /\ interrupted' = (interrupted \/ out = "interrupt")
        /\ pc' = IF out = "ok" THEN "retry" ELSE "for"
    /\ UNCHANGED << environ, config, store, outcomeVars, loadVars, documents,
                    test_dim, chunks, uploadVars, provisions >>

\* a faulty variant of Retry: a failed retry is retried again
RetryAgain ==
    /\ pc = "retry"
    /\ \E out \in Outcomes :
        /\ log' = Append(log, Event("add_documents", i, batch, 2, out))
        /\ interrupted' = (interrupted \/ out = "interrupt")
        /\ IF out = "ok"
           THEN successful' = successful + Len(batch) /\ pc' = "undo"
           ELSE UNCHANGED successful /\ pc' = IF out = "error" THEN "retry" ELSE "for"
    /\ UNCHANGED << environ, config, store, outcomeVars, loadVars, documents,
                    test_dim, chunks, iteration, i, batch, failed, provisions >>

\* the retry vectorstore.add_documents(batch) and successful += len(batch),
\* or `except: pass` for anything raised
Retry ==
    /\ pc = "retry"
    /\ \E out \in Outcomes :
        /\ log' = Append(log, Event("add_documents", i, batch, 2, out))
        /\ interrupted' = (interrupted \/ out = "interrupt")
        /\ IF out = "ok"
           THEN successful' = successful + Len(batch) /\ pc' = "undo"
           ELSE UNCHANGED successful /\ pc' = "for"
    /\ UNCHANGED << environ, config, store, outcomeVars, loadVars, documents,
                    test_dim, chunks, iteration, i, batch, failed, provisions >>

\* failed -= len(batch), the statement after successful += len(batch)
RetryUndo ==
    /\ pc = "undo"
    /\ failed' = FailedOnRetryOk(failed, batch)
    /\ pc' = "for"
    /\ UNCHANGED << environ, config, store, outcomeVars, interrupted, log, loadVars,
                    documents, test_dim, chunks, iteration, i, batch, successful,
                    provisions >>

\* return failed == 0, taken by ingest_documents as `success`
UploadReturn ==
    /\ pc = "return"
    /\ success' = IF UploadResult(successful, failed) THEN "True" ELSE "False"
    /\ pc' = "report"
    /\ UNCHANGED << environ, config, store, raised, message, ret, exit_code,
                    interrupted, log, loadVars, documents, test_dim, chunks,
                    uploadVars, provisions >>

(* ---------------------- ingest_documents' end, __main__ --------------- *)
\* elapsed/len(chunks) in the report raises ZeroDivisionError for no chunks;
\* otherwise return success
Report ==
    /\ pc = "report"
    /\ IF Len(chunks) = 0
       THEN Raise("ZeroDivisionError", <<>>)
       ELSE /\ ret' = success
            /\ pc' = "main_ok"
            /\ UNCHANGED << raised, message, success, exit_code >>
    /\ UNCHANGED << environ, config, store, interrupted, log, loadVars, documents,
                    test_dim, chunks, uploadVars, provisions >>

\* the exit code of __main__: exit(1) in the else branch and in both handlers,
\* 0 when the script runs to its end
ExitCode(returned, cls) ==
    IF cls /= "none" THEN 1
    ELSE IF returned = "True" THEN 0
    ELSE 1

\* success = ingest_documents() returned
MainReturned ==
    /\ pc = "main_ok"
    /\ exit_code' = ExitCode(ret, raised)
    /\ pc' = "exit"
    /\ UNCHANGED << environ, config, store, raised, message, success, ret,
                    interrupted, log, loadVars, documents, test_dim, chunks,
                    uploadVars, provisions >>

\* except KeyboardInterrupt / except Exception
MainExcept ==
    /\ pc = "main_except"
    /\ exit_code' = ExitCode(ret, raised)
    /\ pc' = "exit"
    /\ UNCHANGED << environ, config, store, raised, message, success, ret,
                    interrupted, log, loadVars, documents, test_dim, chunks,
                    uploadVars, provisions >>

Next ==
    \/ Validate
    \/ LoadPdf
    \/ \E k \in 1..(MaxProc + 1) : k \in DOMAIN tasks /\ TaskStart(k)
    \/ \E k \in 1..(MaxProc + 1) : k \in DOMAIN tasks /\ TaskFinish(k)
    \/ PoolJoin
    \/ PoolInterrupt
    \/ CombineResults
    \/ Split
    \/ CreateEmbeddings
    \/ CreateQdrantClient
    \/ ProbeDimension
    \/ ProvisionCollection
    \/ CreateVectorStore
    \/ UploadStart
    \/ ForNext
    \/ FirstAttempt
    \/ Pause
    \/ Backoff
    \/ Retry
    \/ RetryUndo
    \/ UploadReturn
    \/ Report
    \/ MainReturned
    \/ MainExcept

Spec == Init /\ [][Next]_vars

(* ------------------------ provisioning sessions ----------------------- *)
\* a client of rag.py calling create_or_verify_collection repeatedly against
\* one store, with any name, size and injected fault
InitColl ==
    /\ environ = RequiredSet
    /\ config \in {c \in Configs : c.max_processes = 1 /\ c.batch_size = 1}
    /\ store \in Stores
    /\ pc = "provision"
    /\ provisions = <<>>
    /\ Idle

Provision ==
    /\ pc = "provision"
    /\ Len(provisions) < MaxProvision
    /\ \E name \in Names, size \in Sizes, fault \in {<<>>} \cup OtherFailures :
        LET r == CreateOrVerifyCollection(store, name, size, fault)
        IN  /\ store' = r.store
            /\ provisions' = Append(provisions,
                   [name |-> name, size |-> size, fault |-> fault,
                    observed |-> r.observed, returns |-> r.returns,
                    raises |-> r.raises])
    /\ UNCHANGED << environ, config, pc, outcomeVars, interrupted, log, loadVars,
                    documents, test_dim, chunks, uploadVars >>

NextColl == Provision

SpecColl == InitColl /\ [][NextColl]_vars

(* ------------------------------ properties ---------------------------- *)
Range(seq) == {seq[k] : k \in 1..Len(seq)}

\* the add_documents calls made so far
Adds == SelectSeq(log, LAMBDA e : e.ev = "add_documents")

\* the first attempts made so far, in submission order
FirstAttempts == SelectSeq(log, LAMBDA e : e.ev = "add_documents" /\ e.attempt = 1)

\* log has an add_documents entry for the batch at `at` with this attempt
\* number and an outcome among outs
Attempted(at, attempt, outs) ==
    \E k \in 1..Len(log) :
        /\ log[k].ev = "add_documents"
        /\ log[k].at = at
        /\ log[k].attempt = attempt
        /\ log[k].out \in outs

\* the batches submitted so far, by the index of their first chunk
Submitted ==
    {log[k].at : k \in {j \in 1..Len(log) :
                          log[j].ev = "add_documents" /\ log[j].attempt = 1}}

FirstFailed(at) == Attempted(at, 1, {"error"})

RetryOk(at) == Attempted(at, 2, {"ok"})

FirstOk(at) == Attempted(at, 1, {"ok"})

\* the retry raised, or the wait before it was interrupted and swallowed
RetryFailed(at) ==
    \/ Attempted(at, 2, {"error", "interrupt"})
    \/ \E k \in 1..Len(log) :
          log[k].ev = "sleep_backoff" /\ log[k].at = at /\ log[k].out = "interrupt"

\* the chunks in the submitted batches whose batch start satisfies P
TotalLen(P(_)) ==
    LET firsts == FirstAttempts
        sum[k \in 0..Len(firsts)] ==
            IF k = 0 THEN 0
            ELSE sum[k - 1] + (IF P(firsts[k].at) THEN Len(firsts[k].batch) ELSE 0)
    IN  sum[Len(firsts)]

\* at a batch boundary: every submitted batch is resolved
AtBoundary == pc \in {"for", "return"}

\* C1: for batch_size >= 1, at every batch boundary `successful` is the total
\* length of the batches that succeeded (at once or on retry) and `failed` the
\* total length of the batches whose first attempt and retry both failed: a
\* batch retried with success adds its length to successful and nothing to
\* failed, a batch failing twice adds its length to failed once and nothing
\* to successful; and when the loop ends every chunk was submitted in a first
\* attempt, whatever failed before it.
C1_RetryLaw ==
    (config.batch_size >= 1 /\ AtBoundary) =>
        /\ successful = TotalLen(LAMBDA at : FirstOk(at) \/ RetryOk(at))
        /\ failed = TotalLen(LAMBDA at : FirstFailed(at) /\ RetryFailed(at))
        /\ \A at \in Submitted : FirstFailed(at) => (RetryOk(at) \/ RetryFailed(at))
        /\ pc = "return" =>
              \A c \in Range(chunks) : \E e \in Range(FirstAttempts) : c \in Range(e.batch)

\* a finished loop with a batch saved by its retry, then a batch that failed
\* twice, then a later batch that was still submitted
C1_Witness ==
    /\ pc = "return"
    /\ config.batch_size >= 1
    /\ \E a, b, c \in Submitted :
        /\ a < b /\ b < c
        /\ FirstFailed(a) /\ RetryOk(a)
        /\ FirstFailed(b) /\ \E e \in Range(Adds) : e.at = b /\ e.attempt = 2 /\ e.out = "error"
        /\ FirstOk(c)

\* C2: for batch_size >= 1, upload_in_batches returns True exactly when every
\* batch succeeded on its first attempt or on its retry.
C2_ReturnsTrueIffNoFailedBatch ==
    (config.batch_size >= 1 /\ pc = "report") =>
        (success = "True" <=> \A at \in Submitted : FirstOk(at) \/ RetryOk(at))

\* the uploader returned True after a run in which a batch needed its retry
C2_Witness ==
    /\ pc = "report"
    /\ config.batch_size >= 1
    /\ success = "True"
    /\ \E at \in Submitted : FirstFailed(at) /\ RetryOk(at)

\* ceil(c / b) for b >= 1, as the least n with n * b >= c
CeilDiv(c, b) == CHOOSE n \in 0..c : n * b >= c /\ (n = 0 \/ (n - 1) * b < c)

\* C3: for batch_size B >= 1 and C chunks, when the loop ends the first
\* attempts are ceil(C/B) batches of at most B chunks, all but the last of
\* exactly B, whose concatenation in submission order is the chunk sequence;
\* and if no call failed each batch was submitted once, successful = C and
\* failed = 0.
C3_Partition ==
    (config.batch_size >= 1 /\ pc = "return") =>
        LET batches == [k \in 1..Len(FirstAttempts) |-> FirstAttempts[k].batch]
        IN  /\ Len(batches) = CeilDiv(Len(chunks), config.batch_size)
            /\ \A k \in 1..Len(batches) :
                  /\ Len(batches[k]) >= 1
                  /\ Len(batches[k]) <= config.batch_size
                  /\ k < Len(batches) => Len(batches[k]) = config.batch_size
            /\ Flatten(batches) = chunks
            /\ (\A e \in Range(log) : e.out = "ok") =>
                  /\ Len(Adds) = Len(batches)
                  /\ successful = Len(chunks)
                  /\ failed = 0

\* a run without failures over 3 chunks in batches of 2: the last batch is short
C3_Witness ==
    /\ pc = "return"
    /\ config.batch_size = 2
    /\ Len(chunks) = 3
    /\ \A e \in Range(log) : e.out = "ok"
    /\ Len(FirstAttempts) = 2

\* the pages of range k of page_ranges
PagesOf(k) == {p \in 0..(total_pages - 1) : page_ranges[k][1] <= p /\ p < page_ranges[k][2]}

\* C4: when load_pdf partitions (P > N >= 1), the N page ranges are contiguous
\* (the first starts at 0, each starts where the one before ends, the last ends
\* at P), pairwise non-overlapping, and cover exactly the pages 0..P-1.
C4_PageRanges ==
    (pc \in {"pool", "combine"}) =>
        /\ total_pages > config.max_processes /\ config.max_processes >= 1
        /\ Len(page_ranges) = config.max_processes
        /\ page_ranges[1][1] = 0
        /\ page_ranges[Len(page_ranges)][2] = total_pages
        /\ \A k \in 1..Len(page_ranges) : page_ranges[k][1] <= page_ranges[k][2]
        /\ \A k \in 2..Len(page_ranges) : page_ranges[k][1] = page_ranges[k - 1][2]
        /\ \A j, k \in 1..Len(page_ranges) : j /= k => PagesOf(j) \cap PagesOf(k) = {}
        /\ \A p \in 0..(total_pages - 1) : \E k \in 1..Len(page_ranges) : p \in PagesOf(k)

\* a fan-out whose last range absorbs a remainder
C4_Witness ==
    /\ pc = "pool"
    /\ config.max_processes >= 2
    /\ total_pages % config.max_processes /= 0

\* C5: whatever the order in which the tasks ran and ended, load_pdf returns
\* the pages of a single load, each once and in page order.
C5_PageOrder ==
    (pc = "split") => documents = LoaderLoad(total_pages)

\* load_pdf returned after a fan-out whose tasks ended out of index order
C5_Witness ==
    /\ pc = "split"
    /\ Len(done_order) >= 2
    /\ done_order[1] > done_order[2]
    /\ Len(documents) > config.max_processes

\* C6: with a required variable missing, the run makes no call at all (no
\* load, no client, no probe, no create_collection, no add_documents): it
\* stops in the validation with a ValueError whose message names every
\* missing variable.
C6_FailFast ==
    (environ /= RequiredSet) =>
        /\ log = <<>>
        /\ documents = <<>>
        /\ pc \in {"validate", "main_except", "exit"}
        /\ pc /= "validate" =>
              /\ raised = "ValueError"
              /\ \A v \in RequiredSet \ environ : v \in Range(message)

\* a run stopped by two missing variables
C6_Witness ==
    /\ pc = "exit"
    /\ Cardinality(RequiredSet \ environ) = 2
    /\ raised = "ValueError"

\* C7: of two calls with the same name and size and no other failure, both
\* return True and the later one has observed the store's already-exists
\* failure; a call that meets any other failure raises it.
C7_Idempotent ==
    /\ \A j, k \in 1..Len(provisions) :
          (/\ j < k
           /\ provisions[j].name = provisions[k].name
           /\ provisions[j].size = provisions[k].size
           /\ provisions[j].fault = <<>>
           /\ provisions[k].fault = <<>>) =>
              /\ provisions[j].returns /\ provisions[j].raises = <<>>
              /\ provisions[k].returns /\ provisions[k].raises = <<>>
              /\ provisions[k].observed = MsgAlreadyExists
    /\ \A k \in 1..Len(provisions) :
          provisions[k].fault /= <<>> =>
              ~provisions[k].returns /\ provisions[k].raises = provisions[k].fault

\* the collection is created by the first call and found by the second
C7_Witness ==
    /\ Len(provisions) = 2
    /\ provisions[1].name = provisions[2].name
    /\ provisions[1].size = provisions[2].size
    /\ provisions[1].observed = <<>> /\ provisions[1].fault = <<>>
    /\ provisions[2].observed = MsgAlreadyExists
    /\ provisions[2].returns

\* upload_in_batches was entered
UploadStarted == \E e \in Range(log) : e.ev = "upload_in_batches"

\* C8: ingest_documents ends in one of two ways: it raises and
\* upload_in_batches was never started, or it returns the boolean that
\* upload_in_batches returned. (Stated for uninterrupted runs with
\* batch_size >= 1.)
C8_TwoOutcomes ==
    (pc = "exit" /\ ~interrupted /\ config.batch_size >= 1) =>
        \/ raised /= "none" /\ ~UploadStarted
        \/ raised = "none" /\ UploadStarted /\ ret = success /\ ret /= "none"

\* C9: the process exits 0 exactly when ingest_documents returned True, and 1
\* when it raised, when a batch ultimately failed, or when the run was
\* interrupted, also where the interrupt is swallowed by the retry's handler.
C9_ExitCode ==
    (pc = "exit") =>
        /\ exit_code \in {0, 1}
        /\ exit_code = 0 <=> ret = "True"
        /\ raised /= "none" => exit_code = 1
        /\ (\E at \in Submitted : ~(FirstOk(at) \/ RetryOk(at))) => exit_code = 1
        /\ interrupted => exit_code = 1

\* an interrupt during the backoff or the retry was swallowed, the run went on
\* to its end and exited 1
C9_Witness ==
    /\ pc = "exit"
    /\ interrupted
    /\ raised = "none"
    /\ exit_code = 1

\* C10: when the first attempt of a batch other than the first is about to be
\* made, the last thing the uploader did was the pause. (Stated for
\* uninterrupted runs.)
C10_PauseBetweenBatches ==
    (pc = "first" /\ iteration >= 2 /\ ~interrupted) =>
        log[Len(log)].ev = "sleep_pause" /\ log[Len(log)].out = "ok"

\* C11: the fan-out joins before it concatenates: while the pool runs no
\* document has been collected, the results are combined only when every task
\* has ended well, and once a task has failed load_pdf collects nothing and
\* can only end by raising.
C11_ScatterGather ==
    /\ pc = "pool" => documents = <<>>
    /\ (pc \in {"combine", "split"} /\ tasks /= <<>>) =>
          \A k \in DOMAIN tasks : tasks[k] = "done"
    /\ (\E k \in DOMAIN tasks : tasks[k] = "failed") =>
          /\ documents = <<>>
          /\ pc \in {"pool", "main_except", "exit"}
          /\ pc /= "pool" => raised \in {"Exception", "KeyboardInterrupt"}

\* one task returned its pages, another failed, and load_pdf raised
C11_Witness ==
    /\ pc = "main_except"
    /\ raised = "Exception"
    /\ \E j, k \in DOMAIN tasks :
          tasks[j] = "done" /\ results[j] /= <<>> /\ tasks[k] = "failed"
    /\ documents = <<>>

\* the add_documents calls made for the batch at `at`
Submissions(at) == Cardinality({k \in 1..Len(Adds) : Adds[k].at = at})

C13_CountersEveryPoint ==
    (config.batch_size >= 1) =>
        /\ 0 <= successful /\ 0 <= failed
        /\ successful + failed <= Len(chunks)
        /\ AtBoundary => successful + failed = TotalLen(LAMBDA at : TRUE)
        /\ pc = "return" => successful + failed = Len(chunks)

\* C13 as amended: the sum may exceed the total only between the two counter
\* statements of a successful retry (successful += len(batch) done,
\* failed -= len(batch) not yet), where it is at most the total plus the
\* length of the current batch; each counter alone never exceeds the total.
C13_Counters ==
    (config.batch_size >= 1) =>
        /\ 0 <= successful /\ successful <= Len(chunks)
        /\ 0 <= failed /\ failed <= Len(chunks)
        /\ pc /= "undo" => successful + failed <= Len(chunks)
        /\ pc = "undo" => successful + failed <= Len(chunks) + Len(batch)
        /\ AtBoundary => successful + failed = TotalLen(LAMBDA at : TRUE)
        /\ pc = "return" => successful + failed = Len(chunks)

\* a finished loop with a batch saved by its retry and a batch that failed
C13_Witness ==
    /\ pc = "return"
    /\ config.batch_size >= 1
    /\ successful > 0 /\ failed > 0
    /\ successful + failed = Len(chunks)
    /\ \E at \in Submitted : RetryOk(at)

\* C14: for every batch_size, when upload_in_batches has returned True every
\* chunk was in an add_documents call that succeeded.
C14_TrueMeansAllUploaded ==
    (pc = "report" /\ success = "True") =>
        \A c \in Range(chunks) :
            \E e \in Range(Adds) : e.out = "ok" /\ c \in Range(e.batch)

====
